---- MODULE Spec2Model ----
(***************************************************************************)
(* A model of src/main/Comparators.ts: the primitive comparators, the      *)
(* function adapter (FunctionComparator), the chain (CompositeComparator)  *)
(* and the type-dispatching ObjectComparator.                              *)
(*                                                                         *)
(* JavaScript values are records [t, n, s, ref]:                           *)
(*   t   the kind of value ("number", "nan", "string", "boolean", "null",  *)
(*       "undefined", "date", "object")                                    *)
(*   n   the number, the boolean as 0/1, or a Date's epoch milliseconds    *)
(*   s   a string's UTF-16 code units                                      *)
(*   ref the identity of a Date or of another object (0 for primitives)    *)
(***************************************************************************)
EXTENDS Integers, Sequences, FiniteSets, TLC

\* comps, started: the fields of the CompositeComparator a caller holds
\* fc: the value wrapped by the FunctionComparator a caller holds (NoCand: none)
\* last: the last call made, its arguments and its outcome (value or throw)
VARIABLES comps, started, fc, last

vars == <<comps, started, fc, last>>

\* ------------------------------------------------------------------ bounds
MaxNum == 5
MaxStrLen == 2
MaxTime == 1
MaxRef == 2
MaxHash == 1
MaxElem == 1
MaxChain == 2
MaxWrap == 2

\* ------------------------------------------------------------------ values
Num(k) == [t |-> "number", n |-> k, s |-> <<>>, ref |-> 0]
NaN == [t |-> "nan", n |-> 0, s |-> <<>>, ref |-> 0]
Str(cs) == [t |-> "string", n |-> 0, s |-> cs, ref |-> 0]
Bool(b) == [t |-> "boolean", n |-> IF b THEN 1 ELSE 0, s |-> <<>>, ref |-> 0]
Null == [t |-> "null", n |-> 0, s |-> <<>>, ref |-> 0]
Undefined == [t |-> "undefined", n |-> 0, s |-> <<>>, ref |-> 0]
DateV(r, ms) == [t |-> "date", n |-> ms, s |-> <<>>, ref |-> r]
Obj(r) == [t |-> "object", n |-> 0, s |-> <<>>, ref |-> r]

\* the code units of "1", "5" and "a"
Chars == {49, 53, 97}
Digits == 48..57

SeqsUpTo(S, k) == UNION {[1..m -> S] : m \in 0..k}

Numbers == {Num(k) : k \in (0 - MaxNum)..MaxNum}
Strings == {Str(cs) : cs \in SeqsUpTo(Chars, MaxStrLen)}
Booleans == {Bool(TRUE), Bool(FALSE)}
Dates == {DateV(r, ms) : r \in 1..MaxRef, ms \in 0..MaxTime}
Objects == {Obj(r) : r \in 1..MaxRef}
Nullish == {Null, Undefined}
AnyValues == Numbers \cup Strings \cup Booleans \cup Dates \cup Objects \cup Nullish

\* ------------------------------------------------------ language semantics
\* typeof v == "number"
IsNumber(v) == v.t \in {"number", "nan"}

\* ToBoolean(v), the test of `if (ret)`
Truthy(v) ==
    CASE v.t = "number" -> v.n # 0
      [] v.t = "nan" -> FALSE
      [] v.t = "string" -> v.s # <<>>
      [] v.t = "boolean" -> v.n = 1
      [] v.t \in {"null", "undefined"} -> FALSE
      [] OTHER -> TRUE

RECURSIVE DecimalOf(_)
DecimalOf(cs) ==
    IF cs = <<>> THEN 0
    ELSE 10 * DecimalOf(SubSeq(cs, 1, Len(cs) - 1)) + (cs[Len(cs)] - 48)

\* ToNumber of a string of code units: "" is 0, decimal digits are their
\* value, anything else is NaN
StringToNumber(cs) ==
    IF \A i \in 1..Len(cs) : cs[i] \in Digits THEN Num(DecimalOf(cs)) ELSE NaN

\* e1 === e2
StrictEq(e1, e2) ==
    CASE e1.t = "nan" \/ e2.t = "nan" -> FALSE
      [] e1.t # e2.t -> FALSE
      [] e1.t \in {"date", "object"} -> e1.ref = e2.ref
      [] OTHER -> e1 = e2

\* e1 == e2, the abstract (coercing) equality of the language
LooseEq(e1, e2) ==
    LET num(v) == IF v.t = "boolean" THEN Num(v.n)
                  ELSE IF v.t = "string" THEN StringToNumber(v.s)
                  ELSE v
        prim(v) == v.t \in {"number", "nan", "string", "boolean"}
    IN  CASE e1.t \in {"null", "undefined"} /\ e2.t \in {"null", "undefined"} -> TRUE
          [] e1.t \in {"null", "undefined"} \/ e2.t \in {"null", "undefined"} -> FALSE
          [] e1.t = e2.t -> StrictEq(e1, e2)
          [] IsNumber(e1) /\ IsNumber(e2) -> FALSE
          [] prim(e1) /\ prim(e2) -> StrictEq(num(e1), num(e2))
          \* a Date or a plain object against a primitive is compared through
          \* its text ("Thu Jan 01 1970 ...", "[object Object]"), which is none
          \* of the strings or numbers of the model
          [] OTHER -> FALSE

\* e == null
IsNullish(e) == e.t \in {"null", "undefined"}

\* ---------------------------------------------------- primitive comparators
NumberCompare(e1, e2) == e1.n - e2.n

RECURSIVE StringLoop(_, _, _, _)
StringLoop(s1, s2, i, minLength) ==
    IF i < minLength
    THEN LET delta == s1[i + 1] - s2[i + 1]
         IN  IF delta = 0 THEN StringLoop(s1, s2, i + 1, minLength) ELSE delta
    ELSE Len(s1) - Len(s2)

\* StringCompare deciding by length before looking at any code unit
StringCompareLengthFirst(e1, e2) ==
    IF IsNullish(e1) \/ IsNullish(e2)
    THEN IF IsNullish(e1) /\ IsNullish(e2) THEN 0
         ELSE IF IsNullish(e1) THEN 0 - 1 ELSE 1
    ELSE IF Len(e1.s) # Len(e2.s) THEN Len(e1.s) - Len(e2.s)
    ELSE StringLoop(e1.s, e2.s, 0, Len(e1.s))

StringCompare(e1, e2) ==
    IF IsNullish(e1) \/ IsNullish(e2)
    THEN IF IsNullish(e1) /\ IsNullish(e2) THEN 0
         ELSE IF IsNullish(e1) THEN 0 - 1 ELSE 1
    ELSE LET minLength == IF Len(e1.s) < Len(e2.s) THEN Len(e1.s) ELSE Len(e2.s)
         IN  StringLoop(e1.s, e2.s, 0, minLength)

DateCompare(e1, e2) == e1.n - e2.n

\* BooleanCompare without its equality test
BooleanCompareNoEquality(e1, e2) == IF Truthy(e1) THEN 1 ELSE 0 - 1

BooleanCompare(e1, e2) ==
    IF LooseEq(e1, e2) THEN 0
    ELSE IF Truthy(e1) THEN 1 ELSE 0 - 1

\* h1, h2: the hash codes Objects.hashCode gives the two operands
HashedCompare(h1, h2) == h1 - h2

GetType(e) == IF e.t = "nan" THEN "number" ELSE e.t

\* ObjectCompare without the Date arm of the dispatch
ObjectCompareNoDate(e1, e2, h1, h2) ==
    IF LooseEq(e1, e2) THEN [val |-> 0, branch |-> "equal"]
    ELSE IF IsNullish(e1) THEN [val |-> 0 - 1, branch |-> "null1"]
    ELSE IF IsNullish(e2) THEN [val |-> 1, branch |-> "null2"]
    ELSE LET type1 == GetType(e1)
             type2 == GetType(e2)
         IN  IF type1 = type2 /\ type1 = "string"
             THEN [val |-> StringCompare(e1, e2), branch |-> "string"]
             ELSE IF type1 = type2 /\ type1 = "number"
             THEN [val |-> NumberCompare(e1, e2), branch |-> "number"]
             ELSE IF type1 = type2 /\ type2 = "boolean"
             THEN [val |-> BooleanCompare(e1, e2), branch |-> "boolean"]
             ELSE [val |-> HashedCompare(h1, h2), branch |-> "hashed"]

\* the value returned and the return statement that produced it
ObjectCompare(e1, e2, h1, h2) ==
    IF LooseEq(e1, e2) THEN [val |-> 0, branch |-> "equal"]
    ELSE IF IsNullish(e1) THEN [val |-> 0 - 1, branch |-> "null1"]
    ELSE IF IsNullish(e2) THEN [val |-> 1, branch |-> "null2"]
    ELSE LET type1 == GetType(e1)
             type2 == GetType(e2)
         IN  IF type1 = type2 /\ type1 = "string"
             THEN [val |-> StringCompare(e1, e2), branch |-> "string"]
             ELSE IF type1 = type2 /\ type1 = "number"
             THEN [val |-> NumberCompare(e1, e2), branch |-> "number"]
             ELSE IF type1 = type2 /\ type2 = "boolean"
             THEN [val |-> BooleanCompare(e1, e2), branch |-> "boolean"]
             ELSE IF type1 = type2 /\ type1 = "date"
             THEN [val |-> DateCompare(e1, e2), branch |-> "date"]
             ELSE [val |-> HashedCompare(h1, h2), branch |-> "hashed"]

\* ------------------------------------------- values given to the adapters
\* What can be handed to FunctionComparator: kind is what the value is
\* ("abstractComparator": an instance of AbstractComparator; "duck": an object
\* with a compare method of the given arity; "function": a plain function;
\* "plain": an object that is neither; "null": null or undefined), beh and
\* ret say what it returns when invoked with (e1, e2).
NoCand == [kind |-> "none", arity |-> 0, beh |-> "const", ret |-> Undefined]
NullCand == [kind |-> "null", arity |-> 0, beh |-> "const", ret |-> Undefined]
PlainObj == [kind |-> "plain", arity |-> 0, beh |-> "const", ret |-> Undefined]
NarrowDuck == [kind |-> "duck", arity |-> 1, beh |-> "minus", ret |-> Undefined]
NumberComparatorObj == [kind |-> "abstractComparator", arity |-> 2, beh |-> "minus", ret |-> Undefined]
ReverseDuck == [kind |-> "duck", arity |-> 2, beh |-> "rminus", ret |-> Undefined]
IsFn == [kind |-> "function", arity |-> 2, beh |-> "is", ret |-> Undefined]
ConstFn(r) == [kind |-> "function", arity |-> 2, beh |-> "const", ret |-> r]
ZeroFn == ConstFn(Num(0))

RawVals ==
    {Num(0 - 1), Num(0), Num(2), NaN, Bool(TRUE), Bool(FALSE),
     Str(<<>>), Str(<<97>>), Null, Undefined, Obj(1)}

ChainInputs == {NumberComparatorObj, ZeroFn, IsFn, PlainObj, NullCand}
WrapInputs == {NumberComparatorObj, ZeroFn, PlainObj, NullCand}
CtorInputs == {IsFn, PlainObj, NullCand}
AdapterInputs ==
    {NumberComparatorObj, ReverseDuck, IsFn, PlainObj, NarrowDuck, NullCand}
        \cup {ConstFn(r) : r \in RawVals}
Elems == {Num(k) : k \in 0..MaxElem}
HashCodes == 0..MaxHash

\* what the wrapped value returns for (e1, e2), before any normalisation
RawReturn(c, e1, e2) ==
    CASE c.beh = "minus" -> Num(e1.n - e2.n)
      [] c.beh = "rminus" -> Num(e2.n - e1.n)
      [] c.beh = "is" -> Bool(StrictEq(e1, e2))
      [] OTHER -> c.ret

isComparator(c) ==
    IF c.kind = "null" THEN FALSE
    ELSE IF c.kind = "abstractComparator" THEN TRUE
    ELSE IF c.kind = "duck" THEN c.arity >= 2
    ELSE FALSE

\* Functions.judgeFuncType: "no function", "plain function" or
\* "comparator-like object"
judgeFuncType(c) ==
    IF c.kind = "function" THEN "FUNCTION"
    ELSE IF isComparator(c) THEN "COMPARATOR"
    ELSE "UNKNOWN"

\* Preconditions.checkTrue: TRUE when the call returns, FALSE when it throws
checkTrue(cond) == cond

\* Functions.callFunction(f, e1, e2)
callFunction(c, e1, e2) == RawReturn(c, e1, e2)

\* ------------------------------------------------------ FunctionComparator
\* the constructor without its precondition
FunctionComparatorNewUnchecked(f) == [threw |-> FALSE, comp |-> f]

\* new FunctionComparator(f): threw, or the object with its comp field
FunctionComparatorNew(f) ==
    IF checkTrue(judgeFuncType(f) # "UNKNOWN")
    THEN [threw |-> FALSE, comp |-> f]
    ELSE [threw |-> TRUE, comp |-> NoCand]

FunctionCompare(comp, e1, e2) ==
    LET ret == IF isComparator(comp) THEN RawReturn(comp, e1, e2)
               ELSE callFunction(comp, e1, e2)
    IN  IF Truthy(ret) THEN Num(0)
        ELSE IF IsNumber(ret) THEN ret
        ELSE Num(1)

\* ----------------------------------------------------- CompositeComparator
\* Collects.forEach over comps with the break predicate `result != 0`
RECURSIVE ForEachCompare(_, _, _, _)
ForEachCompare(cs, i, e1, e2) ==
    LET result == FunctionCompare(cs[i], e1, e2)
    IN  IF ~LooseEq(result, Num(0)) \/ i = Len(cs) THEN result
        ELSE ForEachCompare(cs, i + 1, e1, e2)

\* compare without the emptiness precondition: result keeps its initial 0
CompositeCompareUnchecked(cs, e1, e2) ==
    IF cs # <<>>
    THEN [threw |-> FALSE, val |-> ForEachCompare(cs, 1, e1, e2)]
    ELSE [threw |-> FALSE, val |-> Num(0)]

CompositeCompare(cs, e1, e2) ==
    IF checkTrue(cs # <<>>)
    THEN [threw |-> FALSE, val |-> ForEachCompare(cs, 1, e1, e2)]
    ELSE [threw |-> TRUE, val |-> Undefined]

\* addComparator without the test of started
AddResultIgnoringStarted(cs, st, f) ==
    LET r == FunctionComparatorNew(f)
    IN  IF r.threw THEN [threw |-> TRUE, comps |-> cs]
        ELSE [threw |-> FALSE, comps |-> Append(cs, r.comp)]

\* the body of addComparator on a composite with the given fields
AddResult(cs, st, f) ==
    IF ~st
    THEN LET r == FunctionComparatorNew(f)
         IN  IF r.threw THEN [threw |-> TRUE, comps |-> cs]
             ELSE [threw |-> FALSE, comps |-> Append(cs, r.comp)]
    ELSE [threw |-> FALSE, comps |-> cs]

\* wrapComparators: forEach over funcs, entries with c != null only
RECURSIVE WrapLoop(_, _, _)
WrapLoop(funcs, i, cs) ==
    IF i > Len(funcs) THEN [threw |-> FALSE, comps |-> cs]
    ELSE IF funcs[i].kind = "null" THEN WrapLoop(funcs, i + 1, cs)
    ELSE LET r == AddResult(cs, FALSE, funcs[i])
         IN  IF r.threw THEN r ELSE WrapLoop(funcs, i + 1, r.comps)

\* ------------------------------------------------------------------- state
NoLast ==
    [op |-> "init", a |-> Undefined, b |-> Undefined, f |-> NoCand,
     fs |-> <<>>, res |-> Undefined, threw |-> FALSE, branch |-> "",
     h1 |-> 0, h2 |-> 0]

Init ==
    /\ comps = <<>>
    /\ started = FALSE
    /\ fc = NoCand
    /\ last = NoLast

\* new CompositeComparator()
NewComposite ==
    /\ comps' = <<>>
    /\ started' = FALSE
    /\ last' = [NoLast EXCEPT !.op = "new"]
    /\ UNCHANGED fc

AddComparator(f) ==
    LET r == AddResult(comps, started, f)
    IN  /\ Len(r.comps) <= MaxChain
        /\ comps' = r.comps
        /\ last' = [NoLast EXCEPT !.op = "add", !.f = f, !.threw = r.threw]
        /\ UNCHANGED <<started, fc>>

\* compare setting started only after the emptiness precondition passed
CompareCheckFirst(e1, e2) ==
    LET r == CompositeCompare(comps, e1, e2)
    IN  /\ started' = IF r.threw THEN started ELSE TRUE
        /\ last' = [NoLast EXCEPT !.op = "compare", !.a = e1, !.b = e2,
                                  !.res = r.val, !.threw = r.threw]
        /\ UNCHANGED <<comps, fc>>

Compare(e1, e2) ==
    LET r == CompositeCompare(comps, e1, e2)
    IN  /\ started' = TRUE
        /\ last' = [NoLast EXCEPT !.op = "compare", !.a = e1, !.b = e2,
                                  !.res = r.val, !.threw = r.threw]
        /\ UNCHANGED <<comps, fc>>

\* a call that throws returns no composite: the caller keeps the one it has
WrapComparators(funcs) ==
    LET r == WrapLoop(funcs, 1, <<>>)
    IN  /\ Len(r.comps) <= MaxChain
        /\ comps' = IF r.threw THEN comps ELSE r.comps
        /\ started' = IF r.threw THEN started ELSE FALSE
        /\ last' = [NoLast EXCEPT !.op = "wrap", !.fs = funcs, !.threw = r.threw]
        /\ UNCHANGED fc

\* functionComparator(f) / new FunctionComparator(f)
NewFunctionComparator(f) ==
    LET r == FunctionComparatorNew(f)
    IN  /\ fc' = IF r.threw THEN fc ELSE r.comp
        /\ last' = [NoLast EXCEPT !.op = "newFunctionComparator", !.f = f,
                                  !.threw = r.threw]
        /\ UNCHANGED <<comps, started>>

FcCompare(e1, e2) ==
    /\ fc # NoCand
    /\ last' = [NoLast EXCEPT !.op = "fcCompare", !.a = e1, !.b = e2, !.f = fc,
                              !.res = FunctionCompare(fc, e1, e2)]
    /\ UNCHANGED <<comps, started, fc>>

\* The stateless comparators are applied to the operands the state holds
\* (last.a, last.b) and to the hash codes Objects.hashCode gives them
\* (last.h1, last.h2).
CallNumberCompare ==
    /\ last.a \in Numbers /\ last.b \in Numbers
    /\ last' = [last EXCEPT !.op = "number", !.branch = "",
                            !.res = Num(NumberCompare(last.a, last.b))]
    /\ UNCHANGED <<comps, started, fc>>

CallStringCompare ==
    /\ last.a \in Strings \cup Nullish /\ last.b \in Strings \cup Nullish
    /\ last' = [last EXCEPT !.op = "string", !.branch = "",
                            !.res = Num(StringCompare(last.a, last.b))]
    /\ UNCHANGED <<comps, started, fc>>

CallDateCompare ==
    /\ last.a \in Dates /\ last.b \in Dates
    /\ last' = [last EXCEPT !.op = "date", !.branch = "",
                            !.res = Num(DateCompare(last.a, last.b))]
    /\ UNCHANGED <<comps, started, fc>>

CallBooleanCompare ==
    /\ last.a \in Booleans /\ last.b \in Booleans
    /\ last' = [last EXCEPT !.op = "boolean", !.branch = "",
                            !.res = Num(BooleanCompare(last.a, last.b))]
    /\ UNCHANGED <<comps, started, fc>>

CallHashedCompare ==
    /\ last' = [last EXCEPT !.op = "hashed", !.branch = "",
                            !.res = Num(HashedCompare(last.h1, last.h2))]
    /\ UNCHANGED <<comps, started, fc>>

CallObjectCompare ==
    LET r == ObjectCompare(last.a, last.b, last.h1, last.h2)
    IN  /\ last' = [last EXCEPT !.op = "object", !.res = Num(r.val),
                                !.branch = r.branch]
        /\ UNCHANGED <<comps, started, fc>>

\* ----------------------------------------------------------- specifications
\* the life of a CompositeComparator and the construction of adapters
Next ==
    \/ NewComposite
    \/ \E f \in ChainInputs : AddComparator(f)
    \/ \E e1, e2 \in Elems : Compare(e1, e2)
    \/ \E funcs \in SeqsUpTo(WrapInputs, MaxWrap) : WrapComparators(funcs)
    \/ \E f \in CtorInputs : NewFunctionComparator(f)

Spec == Init /\ [][Next]_vars

\* a FunctionComparator over every kind of wrapped value and raw return
NextFn ==
    \/ \E f \in AdapterInputs : NewFunctionComparator(f)
    \/ \E e1, e2 \in Elems : FcCompare(e1, e2)

SpecFn == Init /\ [][NextFn]_vars

\* the stateless comparators, on every pair of operands; hashCode is a
\* function of the value, so one operand twice has one hash code;
\* one Date object has one time
SameRefSameValue(e1, e2) ==
    (e1.t = e2.t /\ e1.ref # 0 /\ e1.ref = e2.ref) => e1 = e2

InitCmp ==
    /\ comps = <<>>
    /\ started = FALSE
    /\ fc = NoCand
    /\ \E e1, e2 \in AnyValues :
        \E h \in [{e1, e2} -> HashCodes] :
            /\ SameRefSameValue(e1, e2)
            /\ last = [NoLast EXCEPT !.a = e1, !.b = e2, !.h1 = h[e1], !.h2 = h[e2]]

NextCmp ==
    \/ CallNumberCompare
    \/ CallStringCompare
    \/ CallDateCompare
    \/ CallBooleanCompare
    \/ CallHashedCompare
    \/ CallObjectCompare

SpecCmp == InitCmp /\ [][NextCmp]_vars

\* ------------------------------------------------------------------ claims
Sign(k) == IF k > 0 THEN 1 ELSE IF k < 0 THEN 0 - 1 ELSE 0

Unrecognized(f) == f.kind # "function" /\ ~isComparator(f)

\* the step stays on the same composite object: no constructor returned a new one
SameComposite == ~(last'.op \in {"new", "wrap"} /\ ~last'.threw)

\* the normalisation the specification gives for a raw return value
Normalized(r) ==
    IF IsNumber(r) THEN r ELSE IF Truthy(r) THEN Num(0) ELSE Num(1)

\* the first nonzero normalised result of the comparators handed to
\* addComparator, in insertion order; 0 when there is none
RECURSIVE FirstNonzero(_, _, _, _)
FirstNonzero(cs, i, e1, e2) ==
    IF i > Len(cs) THEN Num(0)
    ELSE LET r == Normalized(RawReturn(cs[i], e1, e2))
         IN  IF r # Num(0) THEN r ELSE FirstNonzero(cs, i + 1, e1, e2)

\* C1: FunctionComparator.compare returns a numeric raw value unchanged, 0
\* for a truthy non-numeric raw value and 1 for any other raw value.
C1_NormalizesRawReturn ==
    last.op = "fcCompare" =>
        last.res = Normalized(RawReturn(last.f, last.a, last.b))

\* C2: CompositeComparator.compare returns the result of the first comparator
\* of the chain, in insertion order, whose result is nonzero, and 0 only when
\* every comparator of the chain returns 0.
C2_FirstNonzeroOfChain ==
    (last.op = "compare" /\ ~last.threw) =>
        last.res = FirstNonzero(comps, 1, last.a, last.b)

\* C3: ObjectComparator.compare on two non-null operands of different runtime
\* types takes the HashedComparator return and yields hashCode(e1) - hashCode(e2).
C3_MixedTypesUseHash ==
    (/\ last.op = "object"
     /\ ~IsNullish(last.a) /\ ~IsNullish(last.b)
     /\ GetType(last.a) # GetType(last.b))
        => (last.branch = "hashed" /\ last.res = Num(last.h1 - last.h2))

\* C4: once compare has been invoked on a composite it stays started and no
\* later call on that composite (addComparator, compare, in any order or
\* number) changes its chain.
C4_FrozenAfterCompare ==
    [][(started /\ SameComposite) => (started' /\ comps' = comps)]_vars

C4_Witness ==
    /\ started
    /\ comps # <<>>
    /\ last.op = "add" /\ ~last.threw
    /\ ~Unrecognized(last.f)
    /\ \A i \in 1..Len(comps) : comps[i] # last.f

\* C5: compare on a composite whose chain is empty (freshly constructed or
\* wrapped from null entries only) throws for every pair of arguments.
C5_EmptyChainThrows ==
    /\ (last.op = "compare" /\ comps = <<>>) => last.threw
    /\ (last.op \in {"new", "wrap"} /\ ~last.threw
        /\ \A i \in 1..Len(last.fs) : last.fs[i].kind = "null")
           => (comps = <<>> /\ \A e1, e2 \in Elems : CompositeCompare(comps, e1, e2).threw)

C5_Witness ==
    last.op = "compare" /\ comps = <<>> /\ last.threw

\* C6: the number, string (null operands included), date and boolean
\* comparators are antisymmetric in sign: sign(compare(a, b)) = -sign(compare(b, a)).
C6_Antisymmetric ==
    /\ last.op = "number" => Sign(last.res.n) = 0 - Sign(NumberCompare(last.b, last.a))
    /\ last.op = "string" => Sign(last.res.n) = 0 - Sign(StringCompare(last.b, last.a))
    /\ last.op = "date" => Sign(last.res.n) = 0 - Sign(DateCompare(last.b, last.a))
    /\ last.op = "boolean" => Sign(last.res.n) = 0 - Sign(BooleanCompare(last.b, last.a))

C6_Witness ==
    last.op = "boolean" /\ last.a = Bool(FALSE) /\ last.b = Bool(TRUE) /\ last.res.n < 0

\* C7: StringComparator.compare is 0 on two nulls, negative for null against
\* a string and positive for the converse; on two strings it is the code-unit
\* difference at the first index where they differ, and the length difference
\* when they agree up to the shorter length.
C7_NullAwareLexicographic ==
    last.op = "string" =>
        LET a == last.a
            b == last.b
            r == last.res.n
        IN  IF IsNullish(a) /\ IsNullish(b) THEN r = 0
            ELSE IF IsNullish(a) THEN r < 0
            ELSE IF IsNullish(b) THEN r > 0
            ELSE LET D == {i \in 1..Len(a.s) : i <= Len(b.s) /\ a.s[i] # b.s[i]}
                 IN  IF D # {}
                     THEN \E i \in D : (\A j \in D : i <= j) /\ r = a.s[i] - b.s[i]
                     ELSE r = Len(a.s) - Len(b.s)

C7_Witness ==
    /\ last.op = "string"
    /\ last.a = Str(<<49>>) /\ last.b = Str(<<49, 53>>)
    /\ last.res.n < 0

C9_Holds ==
    /\ \A i \in 1..Len(comps) : ~Unrecognized(comps[i])
    /\ fc = NoCand \/ ~Unrecognized(fc)
    /\ (last.op = "newFunctionComparator" /\ Unrecognized(last.f)) => last.threw
    /\ (last.op = "add" /\ ~started /\ Unrecognized(last.f)) => last.threw
    /\ (last.op = "wrap" /\ \E i \in 1..Len(last.fs) :
            last.fs[i].kind # "null" /\ Unrecognized(last.fs[i])) => last.threw

C9_RejectedAtConstruction ==
    [][C9_Holds' /\ ((last'.op = "add" /\ last'.threw) => comps' = comps)]_vars

C9_Witness ==
    /\ last.op = "add" /\ last.threw
    /\ Unrecognized(last.f)
    /\ ~started
    /\ comps # <<>>

\* C10: a compare call that fails on an empty chain has already set started;
\* from then on that composite stays started with an empty chain, whatever is
\* added, and every later compare on it fails too.
C10_FailedCompareFreezes ==
    [][/\ (last'.op = "compare" /\ last'.threw) => started'
       /\ (started /\ comps = <<>> /\ SameComposite) =>
            (/\ started'
             /\ comps' = <<>>
             /\ last'.op = "compare" => last'.threw)]_vars

C10_Witness ==
    /\ started
    /\ comps = <<>>
    /\ last.op = "add" /\ ~last.threw
    /\ ~Unrecognized(last.f)

====
